---- MODULE Spec2Model ----
(***************************************************************************)
(* Model of the log data generator (LogDataGenerator: generate, write) of  *)
(* the time-series benchmark playground, of reading the written files      *)
(* back, and of the loader that converts them to insert requests for the   *)
(* database (GreptimeDataLoader).  Times are microseconds since the epoch, *)
(* as in the source.                                                       *)
(***************************************************************************)
EXTENDS Integers, Sequences, FiniteSets, TLC

(***************************************************************************)
(* Bounds of the model.                                                    *)
(***************************************************************************)
MaxEndSecs == 2
MaxUsers == 2
MaxPages == 2
\* The random generator is a deterministic function of its state: a seed is
\* a stream of TapeLen raw words of RawWords, repeated cyclically.
TapeLen == 2
RawWords == {0, 1, 2}
\* config.time_start, in seconds since the epoch
StartSecs == {0, 1}
\* How many times the caller invokes generate on the same generator.
MaxRuns == 2

\* config.interval, in microseconds
Intervals == {500000, 1000000, 2000000}

(***************************************************************************)
(* Program constants.                                                      *)
(***************************************************************************)
MicrosPerSecond == 1000000
WebLogJitter == 500000
ErrorLogJitter == 500000
RuntimeLow == 50
RuntimeHigh == 300
ErrorPercentRange == 100
ErrorPercent == 20
MinErrors == 1
MaxErrors == 3
ErrorCodeBase == 500
ErrorCodeRange == 10

(***************************************************************************)
(* ISO 8601 time strings of the configuration: a string either parses to a *)
(* whole number of seconds or does not parse.                              *)
(***************************************************************************)
TimeString(secs) ==
    {[valid |-> TRUE, secs |-> s] : s \in secs} \cup {[valid |-> FALSE, secs |-> 0]}

Seeds == [0..(TapeLen - 1) -> RawWords]

Configs ==
    [interval : Intervals,
     time_start : TimeString(StartSecs),
     time_end : TimeString(0..MaxEndSecs),
     seed : Seeds,
     num_of_users : 0..MaxUsers,
     num_of_pages : 0..MaxPages]

(***************************************************************************)
(* Results: Ok(value), Err(error) or a panic that unwinds the caller.      *)
(***************************************************************************)
Ok(v) == [kind |-> "Ok", value |-> v, error |-> "none"]
Err(e) == [kind |-> "Err", value |-> <<>>, error |-> e]
Panic(msg) == [kind |-> "Panic", value |-> <<>>, error |-> msg]
NoResult == [kind |-> "None", value |-> <<>>, error |-> "none"]

(***************************************************************************)
(* The random stream.  A StdRng clone at position pos yields the raw word  *)
(* seed[pos mod TapeLen]; every draw consumes one word.                    *)
(***************************************************************************)
Raw(seed, pos) == seed[pos % TapeLen]

\* rng.gen_range(low..high): a value of low..high-1, both ends reachable.
GenRange(raw, low, high) == low + (raw * (high - 1 - low)) \div (Cardinality(RawWords) - 1)

\* slice.choose(rng): one element of the slice
Choose(raw, slice) == slice[1 + GenRange(raw, 0, Len(slice))]

\* Faker values: a value determined by the raw word drawn.
FakeUsername(raw) == "username" \o ToString(raw)
FakeFreeEmail(raw) == "email" \o ToString(raw)
FakeDomainSuffix(raw) == "suffix" \o ToString(raw)
FakeSentence(raw) == "sentence" \o ToString(raw)
FakeUserAgent(raw) == "agent" \o ToString(raw)
FakeIP(raw) == "ip" \o ToString(raw)
FakeI32(raw) == raw

\* DateTimeBefore(dt): an instant strictly before dt, as
\* [unix_timestamp, microsecond].
FakeDateTimeBefore(raw, dtSecs) ==
    LET micros == dtSecs * MicrosPerSecond - 1 - raw
    IN [unix_timestamp |-> micros \div MicrosPerSecond,
        microsecond |-> micros % MicrosPerSecond]

\* OffsetDateTime::parse(s, &Iso8601::DEFAULT)
ParseDate(s) == IF s.valid THEN Ok(s.secs) ELSE Err("ParseDate")

(***************************************************************************)
(* Arrow schemas of LogData::new and record batches.                       *)
(***************************************************************************)
Int32 == "Int32"
Utf8 == "Utf8"
TimestampMicros == "Timestamp(Microsecond, None)"
Float32 == "Float32"

Field(name, type) == [name |-> name, data_type |-> type]

users_schema ==
    <<Field("user_id", Int32), Field("username", Utf8), Field("email", Utf8),
      Field("signup_date", TimestampMicros)>>
pages_schema ==
    <<Field("page_id", Int32), Field("page_url", Utf8), Field("page_title", Utf8),
      Field("created_date", TimestampMicros)>>
devices_schema ==
    <<Field("device_id", Int32), Field("browser", Utf8)>>
web_logs_schema ==
    <<Field("log_id", Int32), Field("user_id", Int32), Field("page_id", Int32),
      Field("device_id", Int32), Field("runtime", Int32), Field("ip_address", Utf8),
      Field("timestamp", TimestampMicros)>>
requests_schema ==
    <<Field("request_id", Int32), Field("log_id", Int32), Field("method", Utf8),
      Field("url", Utf8), Field("http_version", Utf8)>>
responses_schema ==
    <<Field("response_id", Int32), Field("log_id", Int32), Field("status_code", Utf8),
      Field("response_size", Int32), Field("response_time", Int32)>>
error_logs_schema ==
    <<Field("error_log_id", Int32), Field("log_id", Int32), Field("error_code", Utf8),
      Field("error_message", Utf8), Field("timestamp", TimestampMicros)>>

NoBatch == [schema |-> <<>>, columns |-> <<>>]

\* RecordBatch::try_new(schema, columns): the columns must be as many as the
\* fields and all of one length.
TryNew(schema, columns) ==
    IF /\ Len(columns) = Len(schema)
       /\ \A i, j \in 1..Len(columns) : Len(columns[i]) = Len(columns[j])
    THEN Ok([schema |-> schema, columns |-> columns])
    ELSE Err("ArrowFile")

\* RecordBatch::num_rows and column(i), i counted from 0 as in the source
NumRows(batch) == IF Len(batch.columns) = 0 THEN 0 ELSE Len(batch.columns[1])
Column(batch, i) == batch.columns[i + 1]
\* array.value(i), i counted from 0
Value(array, i) == array[i + 1]

table_names ==
    <<"users", "pages", "devices", "web_logs", "requests", "responses", "error_logs">>

(***************************************************************************)
(* State.                                                                  *)
(***************************************************************************)
VARIABLES
    config,            \* generator_config and log_config of the generator
    stored_seed,       \* position of generator_config.seed in its stream
    pc,                \* where the caller of the generator stands
    users_batch, pages_batch, devices_batch, web_logs_batch,
    requests_batch, responses_batch, error_logs_batch,
    num_of_logs,       \* second component of generate_web_logs_data's result
    web_logs_locals,   \* locals of generate_web_logs_data during its loop
    result,            \* what the last call of generate returned
    prev_result,       \* what the call before it returned
    runs,              \* calls of generate so far
    files,             \* the directory: file name -> parquet file
    write_index,       \* position of write's loop over zip(to_write, table_names)
    write_result,      \* what write returned
    read_results,      \* table name -> result of read_parquet_file
    use_case,          \* config.use_case of the loader
    load_index,        \* tables the loader's loop has finished
    load_batch,        \* record_batch of the loader's loop body
    insert_request,    \* insert_request of the loader's loop body
    sent,              \* the requests handed to client.row_insert, in order
    answers,           \* the database's answers to them, in order
    res,               \* res of load_data_from_parquet_file
    load_result,       \* what load_data_from_parquet_file returned
    lookup,            \* the last schema and table_name lookup of a caller
    sample             \* a draw of the status code distribution and its outcome

vars ==
    <<config, stored_seed, pc, users_batch, pages_batch, devices_batch,
      web_logs_batch, requests_batch, responses_batch, error_logs_batch,
      num_of_logs, web_logs_locals, result, prev_result, runs, files,
      write_index, write_result, read_results, use_case, load_index, load_batch,
      insert_request, sent, answers, res, load_result, lookup, sample>>

batch_vars ==
    <<users_batch, pages_batch, devices_batch, web_logs_batch,
      requests_batch, responses_batch, error_logs_batch, num_of_logs>>

io_vars == <<files, write_index, write_result, read_results>>

loader_vars ==
    <<use_case, load_index, load_batch, insert_request, sent, answers, res,
      load_result, lookup, sample>>

NoLocals ==
    [seed |-> 0, current_time |-> 0, end_time |-> 0,
     log_ids |-> <<>>, user_ids |-> <<>>, page_ids |-> <<>>, device_ids |-> <<>>,
     runtimes |-> <<>>, ip_addresses |-> <<>>, timestamps |-> <<>>]

\* self.generator_config.seed.clone(): the clone starts where the stored
\* generator stands
SeedClone(stored) == stored

\* The stored generator after a table was generated from a clone whose
\* position became local: generate takes &self, the stored one is untouched.
StoredSeedAfterShared(stored, local) == local
StoredSeedAfter(stored, local) == stored

(***************************************************************************)
(* generate_users_data                                                     *)
(***************************************************************************)
UsersDrawsPerRow == 3

GenerateUsersData(cfg, seed0) ==
    LET num_of_user == cfg.num_of_users
        date_before == ParseDate(cfg.time_start)
        rawAt(i, k) == Raw(cfg.seed, seed0 + UsersDrawsPerRow * i + k)
        date(i) == FakeDateTimeBefore(rawAt(i, 2), date_before.value)
        user_ids == [i \in 1..num_of_user |-> i - 1]
        usernames == [i \in 1..num_of_user |-> FakeUsername(rawAt(i - 1, 0))]
        emails == [i \in 1..num_of_user |-> FakeFreeEmail(rawAt(i - 1, 1))]
        signup_dates ==
            [i \in 1..num_of_user |->
                date(i - 1).unix_timestamp * MicrosPerSecond + date(i - 1).microsecond]
    IN  IF num_of_user > 0 /\ date_before.kind = "Err"
        THEN [batch |-> date_before, seed |-> seed0]
        ELSE [batch |-> TryNew(users_schema, <<user_ids, usernames, emails, signup_dates>>),
              seed |-> seed0 + UsersDrawsPerRow * num_of_user]

(***************************************************************************)
(* generate_pages_data                                                     *)
(***************************************************************************)
PagesDrawsPerRow == 3

GeneratePagesData(cfg, seed0) ==
    LET num_of_pages == cfg.num_of_pages
        date == ParseDate(cfg.time_start)
        rawAt(i, k) == Raw(cfg.seed, seed0 + PagesDrawsPerRow * i + k)
        page_ids == [i \in 1..num_of_pages |-> i - 1]
        page_urls ==
            [i \in 1..num_of_pages |->
                "https://www." \o FakeUsername(rawAt(i - 1, 0)) \o "."
                    \o FakeDomainSuffix(rawAt(i - 1, 1))]
        page_titles == [i \in 1..num_of_pages |-> FakeSentence(rawAt(i - 1, 2))]
        created_date == [i \in 1..num_of_pages |-> date.value * MicrosPerSecond + 0]
    IN  IF num_of_pages > 0 /\ date.kind = "Err"
        THEN [batch |-> date, seed |-> seed0]
        ELSE [batch |-> TryNew(pages_schema, <<page_ids, page_urls, page_titles, created_date>>),
              seed |-> seed0 + PagesDrawsPerRow * num_of_pages]

(***************************************************************************)
(* generate_devices_data: one device per user                              *)
(***************************************************************************)
NumOfDevicesUnrelated(cfg) == cfg.num_of_pages
NumOfDevices(cfg) == cfg.num_of_users

GenerateDevicesData(cfg, seed0) ==
    LET num_of_devices == NumOfDevices(cfg)
        device_ids == [i \in 1..num_of_devices |-> i - 1]
        browsers ==
            [i \in 1..num_of_devices |-> FakeUserAgent(Raw(cfg.seed, seed0 + i - 1))]
    IN  [batch |-> TryNew(devices_schema, <<device_ids, browsers>>),
         seed |-> seed0 + num_of_devices]

(***************************************************************************)
(* generate_web_logs_data: one row per step of current_time from           *)
(* start_time while current_time <= end_time.                              *)
(***************************************************************************)
WebLogsDrawsPerRow == 3

\* while current_time <= end_time
WebLogsLoopConditionExclusive(current_time, end_time) == current_time < end_time
WebLogsLoopConditionLate(current_time, end_time) == current_time <= end_time + MicrosPerSecond
WebLogsLoopCondition(current_time, end_time) == current_time <= end_time

\* current_time += interval
AdvanceTimeTwice(current_time, interval) == current_time + 2 * interval
AdvanceTimeHalf(current_time, interval) == current_time + interval \div 2
AdvanceTime(current_time, interval) == current_time + interval

\* seed.gen_range(-500_000..500_000)
WebLogJitterDrawWide(raw) == GenRange(raw, -2 * WebLogJitter, 2 * WebLogJitter)
WebLogJitterDrawInclusive(raw) == GenRange(raw, -WebLogJitter, WebLogJitter + 1)
WebLogJitterDraw(raw) == GenRange(raw, -WebLogJitter, WebLogJitter)

\* ids.push(ids.len() as i32): the id of a new row is the number of rows
\* before it
NextIdFromOne(ids) == Len(ids) + 1
NextId(ids) == Len(ids)

\* array.value(log_ids.len() % array.len()); log_ids already holds the new
\* row.  A remainder by zero panics.
CyclicIndexShifted(len, array_len) == (len + 1) % array_len
CyclicIndex(len, array_len) == len % array_len

\* One iteration of the loop on the locals l.
WebLogsIteration(cfg, l, user_id_array, page_id_array, device_id_array) ==
    LET log_ids == Append(l.log_ids, NextId(l.log_ids))
        user_id == Value(user_id_array, CyclicIndex(Len(log_ids), Len(user_id_array)))
        page_id == Value(page_id_array, CyclicIndex(Len(log_ids), Len(page_id_array)))
        device_id == Value(device_id_array, CyclicIndex(Len(log_ids), Len(device_id_array)))
        runtime == GenRange(Raw(cfg.seed, l.seed), RuntimeLow, RuntimeHigh)
        ip == FakeIP(Raw(cfg.seed, l.seed + 1))
        jitter == WebLogJitterDraw(Raw(cfg.seed, l.seed + 2))
    IN  [seed |-> l.seed + WebLogsDrawsPerRow,
         current_time |-> AdvanceTime(l.current_time, cfg.interval),
         end_time |-> l.end_time,
         log_ids |-> log_ids,
         user_ids |-> Append(l.user_ids, user_id),
         page_ids |-> Append(l.page_ids, page_id),
         device_ids |-> Append(l.device_ids, device_id),
         runtimes |-> Append(l.runtimes, runtime),
         ip_addresses |-> Append(l.ip_addresses, ip),
         timestamps |-> Append(l.timestamps, l.current_time + jitter)]

\* RecordBatch::try_new(self.log_data.web_logs_schema.clone(), vec![..])
WebLogsBatchUnchecked(l) ==
    Ok([schema |-> web_logs_schema,
        columns |-> <<l.log_ids, l.user_ids, l.page_ids, l.device_ids, l.runtimes,
                      SubSeq(l.ip_addresses, 1, Len(l.ip_addresses) - 1), l.timestamps>>])
WebLogsBatch(l) ==
    TryNew(web_logs_schema,
           <<l.log_ids, l.user_ids, l.page_ids, l.device_ids, l.runtimes,
             l.ip_addresses, l.timestamps>>)

(***************************************************************************)
(* generate_requests_data                                                  *)
(***************************************************************************)
http_methods == <<"GET", "POST", "PUT", "DELETE", "PATCH">>
http_versions == <<"HTTP/1.1", "HTTP/2", "HTTP/3">>
RequestsDrawsPerRow == 2

\* for i in 0..num_of_logs
RowRangeShort(n) == 1..(n - 1)
RowRange(n) == 1..n

GenerateRequestsData(cfg, seed0, web_logs, pages, n) ==
    LET log_id_array == Column(web_logs, 0)
        page_url_array == Column(pages, 1)
        rawAt(i, k) == Raw(cfg.seed, seed0 + RequestsDrawsPerRow * i + k)
        request_ids == [i \in RowRange(n) |-> i - 1]
        log_ids == [i \in RowRange(n) |-> Value(log_id_array, i - 1)]
        methods == [i \in RowRange(n) |-> Choose(rawAt(i - 1, 0), http_methods)]
        urls ==
            [i \in RowRange(n) |->
                Value(page_url_array, CyclicIndex(i - 1, Len(page_url_array)))]
        versions == [i \in RowRange(n) |-> Choose(rawAt(i - 1, 1), http_versions)]
    IN  IF n > 0 /\ Len(page_url_array) = 0
        THEN [batch |-> Panic("remainder by zero"), seed |-> seed0]
        ELSE [batch |-> TryNew(requests_schema,
                               <<request_ids, log_ids, methods, urls, versions>>),
              seed |-> seed0 + RequestsDrawsPerRow * n]

(***************************************************************************)
(* generate_responses_data                                                 *)
(***************************************************************************)
http_status_codes ==
    <<"200", "201", "202", "204", "400", "401", "403", "404", "500", "502", "503">>
weightsOfTotal102 == <<40, 20, 10, 10, 5, 2, 2, 5, 3, 2, 3>>
weights == <<40, 20, 10, 10, 5, 2, 2, 5, 3, 2, 1>>
ResponsesDrawsPerRow == 3

RECURSIVE SumTo(_, _)
SumTo(w, k) == IF k = 0 THEN 0 ELSE w[k] + SumTo(w, k - 1)

\* WeightedIndex::new(weights).sample(rng): a point of 0..total-1 falls to
\* the first index whose cumulative weight exceeds it; indices count from 0.
WeightedIndexAt(x, w) ==
    (CHOOSE k \in 1..Len(w) : SumTo(w, k - 1) <= x /\ x < SumTo(w, k)) - 1

WeightedIndexSample(raw, w) == WeightedIndexAt(GenRange(raw, 0, SumTo(w, Len(w))), w)

GenerateResponsesData(cfg, seed0, web_logs, n) ==
    LET log_id_array == Column(web_logs, 0)
        rawAt(i, k) == Raw(cfg.seed, seed0 + ResponsesDrawsPerRow * i + k)
        response_ids == [i \in RowRange(n) |-> i - 1]
        log_ids == [i \in RowRange(n) |-> Value(log_id_array, i - 1)]
        status_codes ==
            [i \in RowRange(n) |->
                Value(http_status_codes, WeightedIndexSample(rawAt(i - 1, 0), weights))]
        response_sizes == [i \in RowRange(n) |-> FakeI32(rawAt(i - 1, 1))]
        response_times == [i \in RowRange(n) |-> FakeI32(rawAt(i - 1, 2))]
    IN  [batch |-> TryNew(responses_schema,
                          <<response_ids, log_ids, status_codes, response_sizes,
                            response_times>>),
         seed |-> seed0 + ResponsesDrawsPerRow * n]

(***************************************************************************)
(* generate_error_logs_data                                                *)
(***************************************************************************)
ErrorDrawsPerError == 2

\* seed.gen_range(1..=3)
NumOfErrorsDrawWide(raw) == GenRange(raw, MinErrors, MaxErrors + 2)
NumOfErrorsDraw(raw) == GenRange(raw, MinErrors, MaxErrors + 1)

\* seed.gen_range(0..500_000)
ErrorJitterDrawInclusive(raw) == GenRange(raw, 0, ErrorLogJitter + 1)
ErrorJitterDraw(raw) == GenRange(raw, 0, ErrorLogJitter)

\* log_id_array.value(i): the log_id the error rows of web_logs row i carry
ErrorLogIdOfNext(log_id_array, i) == Value(log_id_array, i) + 1
ErrorLogIdOf(log_id_array, i) == Value(log_id_array, i)

\* The inner loop: num_of_errors rows pushed for one web_logs row, the
\* first draw at seed position pos.
RECURSIVE PushErrors(_, _, _, _, _, _)
PushErrors(cfg, acc, pos, log_id, base_timestamp, left) ==
    IF left = 0 THEN acc
    ELSE LET error_code == ErrorCodeBase + GenRange(Raw(cfg.seed, pos), 0, ErrorCodeRange)
             jitter == ErrorJitterDraw(Raw(cfg.seed, pos + 1))
         IN  PushErrors(cfg,
                 [error_log_ids |-> Append(acc.error_log_ids, NextId(acc.error_log_ids)),
                  log_ids |-> Append(acc.log_ids, log_id),
                  error_codes |-> Append(acc.error_codes, ToString(error_code)),
                  error_messages |->
                      Append(acc.error_messages, "Error message " \o ToString(error_code)),
                  timestamps |-> Append(acc.timestamps, base_timestamp + jitter)],
                 pos + ErrorDrawsPerError, log_id, base_timestamp, left - 1)

\* The outer loop from web_logs row i (counted from 0) on.
RECURSIVE ErrorLogsFrom(_, _, _, _, _, _, _)
ErrorLogsFrom(cfg, acc, pos, log_id_array, timestamp_array, i, n) ==
    IF i >= n THEN [acc |-> acc, seed |-> pos]
    ELSE LET log_id == ErrorLogIdOf(log_id_array, i)
             base_timestamp == Value(timestamp_array, i)
             hit == GenRange(Raw(cfg.seed, pos), 0, ErrorPercentRange) < ErrorPercent
             num_of_errors == NumOfErrorsDraw(Raw(cfg.seed, pos + 1))
         IN  IF hit
             THEN ErrorLogsFrom(cfg,
                      PushErrors(cfg, acc, pos + 2, log_id, base_timestamp, num_of_errors),
                      pos + 2 + ErrorDrawsPerError * num_of_errors,
                      log_id_array, timestamp_array, i + 1, n)
             ELSE ErrorLogsFrom(cfg, acc, pos + 1, log_id_array, timestamp_array, i + 1, n)

GenerateErrorLogsData(cfg, seed0, web_logs, n) ==
    LET empty == [error_log_ids |-> <<>>, log_ids |-> <<>>, error_codes |-> <<>>,
                  error_messages |-> <<>>, timestamps |-> <<>>]
        out == ErrorLogsFrom(cfg, empty, seed0, Column(web_logs, 0), Column(web_logs, 6), 0, n)
    IN  [batch |-> TryNew(error_logs_schema,
                          <<out.acc.error_log_ids, out.acc.log_ids, out.acc.error_codes,
                            out.acc.error_messages, out.acc.timestamps>>),
         seed |-> out.seed]

(***************************************************************************)
(* Parquet files.  ArrowWriter keeps the arrow schema in the file and      *)
(* writes one row group per non-empty batch; close writes the footer.      *)
(***************************************************************************)
NoFile == [exists |-> FALSE, closed |-> FALSE, schema |-> <<>>, row_groups |-> <<>>]

\* File::create: a new or truncated file
CreatedFile == [exists |-> TRUE, closed |-> FALSE, schema |-> <<>>, row_groups |-> <<>>]

ParquetType(data_type) ==
    CASE data_type = Int32 -> [physical |-> "INT32", logical |-> "NONE"]
      [] data_type = Utf8 -> [physical |-> "BYTE_ARRAY", logical |-> "STRING"]
      [] data_type = TimestampMicros -> [physical |-> "INT64", logical |-> "TIMESTAMP(MICROS,false)"]
      [] data_type = Float32 -> [physical |-> "FLOAT", logical |-> "NONE"]

ArrowType(parquet_type) ==
    CASE parquet_type.physical = "INT32" -> Int32
      [] parquet_type.physical = "BYTE_ARRAY" -> Utf8
      [] parquet_type.physical = "INT64" -> TimestampMicros
      [] parquet_type.physical = "FLOAT" -> Float32

ParquetSchema(schema) ==
    [i \in 1..Len(schema) |-> [name |-> schema[i].name, type |-> ParquetType(schema[i].data_type)]]

\* ArrowWriter::try_new(file, batch.schema(), props)
ArrowWriterTryNew(file, schema) == [file EXCEPT !.schema = ParquetSchema(schema)]

\* ArrowWriter::write(batch): a batch without rows is skipped
ArrowWriterWrite(file, batch) ==
    IF NumRows(batch) = 0 THEN file
    ELSE [file EXCEPT !.row_groups = Append(@, batch.columns)]

\* ArrowWriter::close
ArrowWriterClose(file) == [file EXCEPT !.closed = TRUE]

\* One pass of write's loop body without failure
WriteBatch(batch) ==
    ArrowWriterClose(ArrowWriterWrite(ArrowWriterTryNew(CreatedFile, batch.schema), batch))

\* read_parquet_file(path): the first batch of the file
ReadParquetFile(file) ==
    IF ~file.exists THEN Err("InvalidFilePath")
    ELSE IF ~file.closed THEN Err("ReadParquetFile")
    ELSE IF Len(file.row_groups) = 0 THEN Err("EndOfParquetFile")
    ELSE Ok([schema |-> [i \in 1..Len(file.schema) |->
                            Field(file.schema[i].name, ArrowType(file.schema[i].type))],
             columns |-> Head(file.row_groups)])

(***************************************************************************)
(* The wire format of the database: column schemas, typed values and the   *)
(* insert request of one table.                                            *)
(***************************************************************************)
tag(name, datatype) ==
    [column_name |-> name, semantic_type |-> "Tag", datatype |-> datatype]
timestamp(name, datatype) ==
    [column_name |-> name, semantic_type |-> "Timestamp", datatype |-> datatype]
field(name, datatype) ==
    [column_name |-> name, semantic_type |-> "Field", datatype |-> datatype]

timestamp_microsecond_value(v) == [value_data |-> "TimestampMicrosecondValue", v |-> v]
string_value(v) == [value_data |-> "StringValue", v |-> v]
i32_value(v) == [value_data |-> "I32Value", v |-> v]

\* LogDataGenerator::schema(table_name)
SchemaDefaultUsers(name) ==
    <<tag("user_id", "Int32")>>
SchemaDefault(name) == <<>>

SchemaStatusCodeAsInt32(name) ==
    IF name = "responses"
    THEN <<tag("response_id", "Int32"), field("log_id", "Int32"),
           field("status_code", "Int32"), field("response_size", "Int32"),
           field("response_time", "Int32")>>
    ELSE SchemaDefault(name)

Schema(name) ==
    CASE name = "users" ->
             <<tag("user_id", "Int32"), field("username", "String"),
               field("email", "String"),
               timestamp("signup_date", "TimestampMicrosecond")>>
      [] name = "pages" ->
             <<tag("page_id", "Int32"), field("page_url", "String"),
               field("page_title", "String"),
               timestamp("created_date", "TimestampMicrosecond")>>
      [] name = "devices" ->
             <<tag("device_id", "Int32"), field("browser", "String")>>
      [] name = "web_logs" ->
             <<tag("log_id", "Int32"), field("user_id", "Int32"),
               field("page_id", "Int32"), field("device_id", "Int32"),
               field("runtime", "Int32"), field("ip_address", "String"),
               timestamp("timestamp", "TimestampMicrosecond")>>
      [] name = "requests" ->
             <<tag("request_id", "Int32"), field("log_id", "Int32"),
               field("method", "String"), field("url", "String"),
               field("http_version", "String")>>
      [] name = "responses" ->
             <<tag("response_id", "Int32"), field("log_id", "Int32"),
               field("status_code", "String"), field("response_size", "Int32"),
               field("response_time", "Int32")>>
      [] name = "error_logs" ->
             <<tag("error_log_id", "Int32"), field("log_id", "Int32"),
               field("error_code", "String"), field("error_message", "String"),
               timestamp("timestamp", "TimestampMicrosecond")>>
      [] OTHER -> SchemaDefault(name)

\* LogDataGenerator::table_name(table_name)
TableName(name) ==
    CASE name = "users" -> "users"
      [] name = "pages" -> "pages"
      [] name = "devices" -> "devices"
      [] name = "web_logs" -> "web_logs"
      [] name = "requests" -> "requests"
      [] name = "responses" -> "responses"
      [] name = "error_logs" -> "error_logs"
      [] OTHER -> "unknown"

(***************************************************************************)
(* record_batch_to_insert_request: one wire row per batch row, one value   *)
(* per column.  A column of another type than the three below meets        *)
(* unimplemented!() at the first row.                                      *)
(***************************************************************************)
SupportedTypes == {Utf8, Int32, TimestampMicros}

\* array.value(row_index) of column col, both counted from 1
CellAtMirrored(batch, row_index, col) ==
    batch.columns[col][NumRows(batch) + 1 - row_index]
CellAt(batch, row_index, col) == batch.columns[col][row_index]

WireValue(data_type, v) ==
    CASE data_type = Utf8 -> string_value(v)
      [] data_type = Int32 -> i32_value(v)
      [] data_type = TimestampMicros -> timestamp_microsecond_value(v)

record_batch_to_insert_request(batch, name, wire_schema) ==
    LET cols == 1..Len(batch.columns)
        unsupported == \E c \in cols : batch.schema[c].data_type \notin SupportedTypes
        row(r) ==
            [values |-> [c \in cols |->
                            WireValue(batch.schema[c].data_type, CellAt(batch, r, c))]]
    IN  IF NumRows(batch) > 0 /\ unsupported
        THEN Panic("not implemented")
        ELSE Ok([inserts |->
                    <<[table_name |-> name,
                       rows |-> [schema |-> wire_schema,
                                 rows |-> [r \in 1..NumRows(batch) |-> row(r)]]]>>])

\* A file another writer left in the directory: one row of a microsecond
\* timestamp and a 32-bit float.
ForeignBatch ==
    [schema |-> <<Field("ts", TimestampMicros), Field("value", Float32)>>,
     columns |-> <<<<0>>, <<1>>>>]

NoRequest == [inserts |-> <<>>]
NoLookup == [name |-> "", schema |-> <<>>, table_name |-> ""]
NoSample == [point |-> 0, index |-> -1, code |-> ""]

\* The loader and the callers of the lookups before they ran
LoaderIdle ==
    /\ load_index = 0
    /\ load_batch = NoBatch
    /\ insert_request = NoRequest
    /\ sent = <<>>
    /\ answers = <<>>
    /\ res = <<>>
    /\ load_result = NoResult
    /\ lookup = NoLookup
    /\ sample = NoSample

(***************************************************************************)
(* Initial state: a generator constructed with any configuration, and a    *)
(* directory without parquet files.                                        *)
(***************************************************************************)
Init ==
    /\ config \in Configs
    /\ stored_seed = 0
    /\ pc = "users"
    /\ users_batch = NoBatch
    /\ pages_batch = NoBatch
    /\ devices_batch = NoBatch
    /\ web_logs_batch = NoBatch
    /\ requests_batch = NoBatch
    /\ responses_batch = NoBatch
    /\ error_logs_batch = NoBatch
    /\ num_of_logs = 0
    /\ web_logs_locals = NoLocals
    /\ result = NoResult
    /\ prev_result = NoResult
    /\ runs = 0
    /\ files = [t \in {table_names[i] : i \in 1..Len(table_names)} |-> NoFile]
    /\ write_index = 0
    /\ write_result = NoResult
    /\ read_results = <<>>
    /\ use_case = "Log"
    /\ LoaderIdle

(***************************************************************************)
(* generate: the steps of one call.  A failed step returns its error (the  *)
(* ? operator) and a panic ends the process; either way the batches built  *)
(* so far are dropped.                                                     *)
(***************************************************************************)
DropLocals ==
    /\ users_batch' = NoBatch
    /\ pages_batch' = NoBatch
    /\ devices_batch' = NoBatch
    /\ web_logs_batch' = NoBatch
    /\ requests_batch' = NoBatch
    /\ responses_batch' = NoBatch
    /\ error_logs_batch' = NoBatch
    /\ num_of_logs' = 0
    /\ web_logs_locals' = NoLocals

Return(value) ==
    /\ result' = value
    /\ runs' = runs + 1
    /\ pc' = IF value.kind = "Panic" THEN "aborted" ELSE "returned"
    /\ DropLocals

GenerateUsers ==
    /\ pc = "users"
    /\ LET r == GenerateUsersData(config, SeedClone(stored_seed))
       IN  /\ stored_seed' = StoredSeedAfter(stored_seed, r.seed)
           /\ IF r.batch.kind = "Ok"
              THEN /\ users_batch' = r.batch.value
                   /\ pc' = "pages"
                   /\ UNCHANGED <<pages_batch, devices_batch, web_logs_batch, requests_batch,
                                  responses_batch, error_logs_batch, num_of_logs,
                                  web_logs_locals, result, runs>>
              ELSE Return(r.batch)
    /\ UNCHANGED <<config, prev_result, io_vars, loader_vars>>

GeneratePages ==
    /\ pc = "pages"
    /\ LET r == GeneratePagesData(config, SeedClone(stored_seed))
       IN  /\ stored_seed' = StoredSeedAfter(stored_seed, r.seed)
           /\ IF r.batch.kind = "Ok"
              THEN /\ pages_batch' = r.batch.value
                   /\ pc' = "devices"
                   /\ UNCHANGED <<users_batch, devices_batch, web_logs_batch, requests_batch,
                                  responses_batch, error_logs_batch, num_of_logs,
                                  web_logs_locals, result, runs>>
              ELSE Return(r.batch)
    /\ UNCHANGED <<config, prev_result, io_vars, loader_vars>>

GenerateDevices ==
    /\ pc = "devices"
    /\ LET r == GenerateDevicesData(config, SeedClone(stored_seed))
       IN  /\ stored_seed' = StoredSeedAfter(stored_seed, r.seed)
           /\ IF r.batch.kind = "Ok"
              THEN /\ devices_batch' = r.batch.value
                   /\ pc' = "web_logs"
                   /\ UNCHANGED <<users_batch, pages_batch, web_logs_batch, requests_batch,
                                  responses_batch, error_logs_batch, num_of_logs,
                                  web_logs_locals, result, runs>>
              ELSE Return(r.batch)
    /\ UNCHANGED <<config, prev_result, io_vars, loader_vars>>

\* generate_web_logs_data up to its loop: the clone of the seed and the two
\* parsed times
WebLogsBegin ==
    /\ pc = "web_logs"
    /\ LET start_time == ParseDate(config.time_start)
           end_time == ParseDate(config.time_end)
       IN  IF start_time.kind = "Err" THEN Return(start_time) /\ UNCHANGED stored_seed
           ELSE IF end_time.kind = "Err" THEN Return(end_time) /\ UNCHANGED stored_seed
           ELSE /\ web_logs_locals' =
                       [NoLocals EXCEPT !.seed = SeedClone(stored_seed),
                                        !.current_time = start_time.value * MicrosPerSecond,
                                        !.end_time = end_time.value * MicrosPerSecond]
                /\ pc' = "web_logs_loop"
                /\ UNCHANGED <<stored_seed, users_batch, pages_batch, devices_batch,
                               web_logs_batch, requests_batch, responses_batch,
                               error_logs_batch, num_of_logs, result, runs>>
    /\ UNCHANGED <<config, prev_result, io_vars, loader_vars>>

\* One iteration of the while loop
WebLogsIter ==
    /\ pc = "web_logs_loop"
    /\ WebLogsLoopCondition(web_logs_locals.current_time, web_logs_locals.end_time)
    /\ LET user_id_array == Column(users_batch, 0)
           page_id_array == Column(pages_batch, 0)
           device_id_array == Column(devices_batch, 0)
       IN  IF Len(user_id_array) = 0 \/ Len(page_id_array) = 0 \/ Len(device_id_array) = 0
           THEN Return(Panic("remainder by zero"))
           ELSE /\ web_logs_locals' =
                       WebLogsIteration(config, web_logs_locals, user_id_array,
                                        page_id_array, device_id_array)
                /\ UNCHANGED <<pc, users_batch, pages_batch, devices_batch, web_logs_batch,
                               requests_batch, responses_batch, error_logs_batch,
                               num_of_logs, result, runs>>
    /\ UNCHANGED <<config, stored_seed, prev_result, io_vars, loader_vars>>

\* The loop's exit and the batch built of the vectors
WebLogsEnd ==
    /\ pc = "web_logs_loop"
    /\ ~WebLogsLoopCondition(web_logs_locals.current_time, web_logs_locals.end_time)
    /\ LET b == WebLogsBatch(web_logs_locals)
       IN  /\ stored_seed' = StoredSeedAfter(stored_seed, web_logs_locals.seed)
           /\ IF b.kind = "Ok"
              THEN /\ web_logs_batch' = b.value
                   /\ num_of_logs' = Len(web_logs_locals.timestamps)
                   /\ web_logs_locals' = NoLocals
                   /\ pc' = "requests"
                   /\ UNCHANGED <<users_batch, pages_batch, devices_batch, requests_batch,
                                  responses_batch, error_logs_batch, result, runs>>
              ELSE Return(b)
    /\ UNCHANGED <<config, prev_result, io_vars, loader_vars>>

GenerateRequests ==
    /\ pc = "requests"
    /\ LET r == GenerateRequestsData(config, SeedClone(stored_seed), web_logs_batch,
                                     pages_batch, num_of_logs)
       IN  /\ stored_seed' = StoredSeedAfter(stored_seed, r.seed)
           /\ IF r.batch.kind = "Ok"
              THEN /\ requests_batch' = r.batch.value
                   /\ pc' = "responses"
                   /\ UNCHANGED <<users_batch, pages_batch, devices_batch, web_logs_batch,
                                  responses_batch, error_logs_batch, num_of_logs,
                                  web_logs_locals, result, runs>>
              ELSE Return(r.batch)
    /\ UNCHANGED <<config, prev_result, io_vars, loader_vars>>

GenerateResponses ==
    /\ pc = "responses"
    /\ LET r == GenerateResponsesData(config, SeedClone(stored_seed), web_logs_batch,
                                      num_of_logs)
       IN  /\ stored_seed' = StoredSeedAfter(stored_seed, r.seed)
           /\ IF r.batch.kind = "Ok"
              THEN /\ responses_batch' = r.batch.value
                   /\ pc' = "error_logs"
                   /\ UNCHANGED <<users_batch, pages_batch, devices_batch, web_logs_batch,
                                  requests_batch, error_logs_batch, num_of_logs,
                                  web_logs_locals, result, runs>>
              ELSE Return(r.batch)
    /\ UNCHANGED <<config, prev_result, io_vars, loader_vars>>

\* The last table, and generate's Ok(vec![...]) of the seven batches
GenerateErrorLogs ==
    /\ pc = "error_logs"
    /\ LET r == GenerateErrorLogsData(config, SeedClone(stored_seed), web_logs_batch,
                                      num_of_logs)
       IN  /\ stored_seed' = StoredSeedAfter(stored_seed, r.seed)
           /\ IF r.batch.kind = "Ok"
              THEN Return(Ok(<<users_batch, pages_batch, devices_batch, web_logs_batch,
                               requests_batch, responses_batch, r.batch.value>>))
              ELSE Return(r.batch)
    /\ UNCHANGED <<config, prev_result, io_vars, loader_vars>>

\* The caller invokes generate once more on the same generator.
CallGenerateAgain ==
    /\ pc = "returned"
    /\ runs < MaxRuns
    /\ prev_result' = result
    /\ result' = NoResult
    /\ pc' = "users"
    /\ UNCHANGED <<config, stored_seed, batch_vars, web_logs_locals, runs, io_vars, loader_vars>>

(***************************************************************************)
(* write(to_write) with the batches generate returned, then the files read *)
(* back in the order of table_names.                                       *)
(***************************************************************************)
CallWrite ==
    /\ pc = "returned"
    /\ result.kind = "Ok"
    /\ pc' = "write"
    /\ write_index' = 0
    /\ UNCHANGED <<config, stored_seed, batch_vars, web_logs_locals, result, prev_result,
                   runs, files, write_result, read_results, loader_vars>>

\* One pass of the loop over zip(to_write.iter(), table_names()).  The file
\* system decides whether the file can be created and written.
WriteTable ==
    /\ pc = "write"
    /\ write_index < Len(table_names) /\ write_index < Len(result.value)
    /\ LET table_name == table_names[write_index + 1]
           batch == result.value[write_index + 1]
       IN  \E outcome \in {"written", "create fails", "write fails"} :
               CASE outcome = "written" ->
                        /\ files' = [files EXCEPT ![table_name] = WriteBatch(batch)]
                        /\ write_index' = write_index + 1
                        /\ UNCHANGED <<pc, write_result>>
                 [] outcome = "create fails" ->
                        /\ write_result' = Panic("Unable to create file")
                        /\ pc' = "aborted"
                        /\ UNCHANGED <<files, write_index>>
                 [] outcome = "write fails" ->
                        /\ files' = [files EXCEPT ![table_name] = CreatedFile]
                        /\ write_result' = Err("WriteParquetFile")
                        /\ pc' = "written"
                        /\ UNCHANGED write_index
    /\ UNCHANGED <<config, stored_seed, batch_vars, web_logs_locals, result, prev_result,
                   runs, read_results, loader_vars>>

WriteDone ==
    /\ pc = "write"
    /\ ~(write_index < Len(table_names) /\ write_index < Len(result.value))
    /\ write_result' = Ok(<<>>)
    /\ pc' = "written"
    /\ UNCHANGED <<config, stored_seed, batch_vars, web_logs_locals, result, prev_result,
                   runs, files, write_index, read_results, loader_vars>>

\* read_parquet_file on the next table's file
ReadTable ==
    /\ pc = "written"
    /\ write_result.kind = "Ok"
    /\ Len(read_results) < Len(table_names)
    /\ read_results' =
           Append(read_results, ReadParquetFile(files[table_names[Len(read_results) + 1]]))
    /\ UNCHANGED <<config, stored_seed, pc, batch_vars, web_logs_locals, result, prev_result,
                   runs, files, write_index, write_result, loader_vars>>

(***************************************************************************)
(* load_data_from_parquet_file: for each table of table_names, read its    *)
(* file, convert the batch and insert it into the database, awaiting the   *)
(* answer.  Every failure returns from the loader (the ? operator).        *)
(***************************************************************************)
\* for table_name in LogDataGenerator::table_names(): the table of pass i
\* (from 0)
LoaderTableAtReversed(i) == table_names[Len(table_names) - i]
LoaderTableAt(i) == table_names[i + 1]

\* The loader returns: its locals are dropped
LoadReturn(value) ==
    /\ load_result' = value
    /\ pc' = IF value.kind = "Panic" THEN "aborted" ELSE "loaded"
    /\ load_batch' = NoBatch
    /\ insert_request' = NoRequest

GeneratorUnchanged ==
    UNCHANGED <<config, stored_seed, batch_vars, web_logs_locals, result, prev_result,
                runs, io_vars, use_case, lookup, sample>>

CallLoad ==
    /\ pc \in {"returned", "written"}
    /\ pc' = "load_read"
    /\ load_index' = 0
    /\ res' = <<>>
    /\ UNCHANGED <<load_batch, insert_request, sent, answers, load_result>>
    /\ GeneratorUnchanged

\* read_parquet_file(path)?
LoadRead ==
    /\ pc = "load_read"
    /\ load_index < Len(table_names)
    /\ LET r == ReadParquetFile(files[LoaderTableAt(load_index)])
       IN  IF r.kind = "Ok"
           THEN /\ load_batch' = r.value
                /\ pc' = "load_convert"
                /\ UNCHANGED <<insert_request, load_result>>
           ELSE LoadReturn(r)
    /\ UNCHANGED <<load_index, sent, answers, res>>
    /\ GeneratorUnchanged

\* The schema of the use case and record_batch_to_insert_request(..)?
LoadConvert ==
    /\ pc = "load_convert"
    /\ LET table_name == LoaderTableAt(load_index)
           r == record_batch_to_insert_request(load_batch, table_name, Schema(table_name))
       IN  IF use_case = "Others" THEN LoadReturn(Panic("not implemented"))
           ELSE IF r.kind = "Ok"
           THEN /\ insert_request' = r.value
                /\ pc' = "load_insert"
                /\ UNCHANGED <<load_batch, load_result>>
           ELSE LoadReturn(r)
    /\ UNCHANGED <<load_index, sent, answers, res>>
    /\ GeneratorUnchanged

\* self.client.row_insert(insert_request): the request leaves for the
\* database and the loader awaits the answer
RowInsert ==
    /\ pc = "load_insert"
    /\ sent' = Append(sent, insert_request)
    /\ pc' = "load_await"
    /\ UNCHANGED <<load_index, load_batch, insert_request, answers, res, load_result>>
    /\ GeneratorUnchanged

\* The database answers the oldest open request with the rows it wrote or
\* with an error.
DatabaseAnswer ==
    /\ Len(answers) < Len(sent)
    /\ LET request == sent[Len(answers) + 1]
       IN  \E answer \in {Ok(Len(request.inserts[1].rows.rows)), Err("Server")} :
               answers' = Append(answers, answer)
    /\ UNCHANGED <<pc, load_index, load_batch, insert_request, sent, res, load_result>>
    /\ GeneratorUnchanged

\* .await? and res.push(affected_rows)
LoadResume ==
    /\ pc = "load_await"
    /\ Len(answers) = Len(sent)
    /\ LET affected_rows == answers[Len(answers)]
       IN  IF affected_rows.kind = "Ok"
           THEN /\ res' = Append(res, affected_rows.value)
                /\ load_index' = load_index + 1
                /\ pc' = "load_read"
                /\ load_batch' = NoBatch
                /\ insert_request' = NoRequest
                /\ UNCHANGED load_result
           ELSE LoadReturn(affected_rows) /\ UNCHANGED <<res, load_index>>
    /\ UNCHANGED <<sent, answers>>
    /\ GeneratorUnchanged

\* Ok(res)
LoadDone ==
    /\ pc = "load_read"
    /\ ~(load_index < Len(table_names))
    /\ LoadReturn(Ok(res))
    /\ UNCHANGED <<load_index, sent, answers, res>>
    /\ GeneratorUnchanged

\* A caller looks a name up with schema and table_name.
LookupNames ==
    {table_names[i] : i \in 1..Len(table_names)} \cup {"", "user", "Users", "unknown"}

Lookup ==
    /\ pc = "loaded"
    /\ \E name \in LookupNames :
           lookup' = [name |-> name, schema |-> Schema(name), table_name |-> TableName(name)]
    /\ UNCHANGED <<config, stored_seed, pc, batch_vars, web_logs_locals, result,
                   prev_result, runs, io_vars, use_case, load_index, load_batch,
                   insert_request, sent, answers, res, load_result, sample>>

Next ==
    \/ GenerateUsers
    \/ GeneratePages
    \/ GenerateDevices
    \/ WebLogsBegin
    \/ WebLogsIter
    \/ WebLogsEnd
    \/ GenerateRequests
    \/ GenerateResponses
    \/ GenerateErrorLogs
    \/ CallGenerateAgain
    \/ CallWrite
    \/ WriteTable
    \/ WriteDone
    \/ ReadTable

Spec == Init /\ [][Next]_vars

(***************************************************************************)
(* The pipeline generate, write, load on a directory that may hold a file  *)
(* of another writer, for a loader of either use case.                     *)
(***************************************************************************)
LoadSeeds == {[i \in 0..(TapeLen - 1) |-> w] : w \in {0, 2}}

LoadConfigs ==
    {c \in Configs :
        /\ c.interval = MicrosPerSecond
        /\ c.time_start = [valid |-> TRUE, secs |-> 0]
        /\ c.time_end.valid /\ c.time_end.secs <= 1
        /\ c.seed \in LoadSeeds
        /\ c.num_of_pages = 1}

LoadDirectories ==
    LET names == {table_names[i] : i \in 1..Len(table_names)}
    IN  {[t \in names |-> NoFile]}
            \cup {[t \in names |-> IF t = f THEN WriteBatch(ForeignBatch) ELSE NoFile] :
                    f \in names}

LoadInit ==
    /\ config \in LoadConfigs
    /\ stored_seed = 0
    /\ pc = "users"
    /\ users_batch = NoBatch
    /\ pages_batch = NoBatch
    /\ devices_batch = NoBatch
    /\ web_logs_batch = NoBatch
    /\ requests_batch = NoBatch
    /\ responses_batch = NoBatch
    /\ error_logs_batch = NoBatch
    /\ num_of_logs = 0
    /\ web_logs_locals = NoLocals
    /\ result = NoResult
    /\ prev_result = NoResult
    /\ runs = 0
    /\ files \in LoadDirectories
    /\ write_index = 0
    /\ write_result = NoResult
    /\ read_results = <<>>
    /\ use_case \in {"Log", "Others"}
    /\ LoaderIdle

LoadNext ==
    \/ GenerateUsers
    \/ GeneratePages
    \/ GenerateDevices
    \/ WebLogsBegin
    \/ WebLogsIter
    \/ WebLogsEnd
    \/ GenerateRequests
    \/ GenerateResponses
    \/ GenerateErrorLogs
    \/ CallWrite
    \/ WriteTable
    \/ WriteDone
    \/ CallLoad
    \/ LoadRead
    \/ LoadConvert
    \/ RowInsert
    \/ DatabaseAnswer
    \/ LoadResume
    \/ LoadDone
    \/ Lookup

LoadSpec == LoadInit /\ [][LoadNext]_vars

(***************************************************************************)
(* The status code of one response: dist.sample(&mut seed) draws a point   *)
(* below the total weight, whatever the generator's state, and the code is *)
(* http_status_codes at the index the point falls to.                      *)
(***************************************************************************)
SamplePoints == 0..(SumTo(weights, Len(weights)) - 1)

Sample ==
    /\ pc = "sample"
    /\ LET index == WeightedIndexAt(sample.point, weights)
       IN  sample' = [point |-> sample.point, index |-> index,
                      code |-> Value(http_status_codes, index)]
    /\ pc' = "sampled"
    /\ UNCHANGED <<config, stored_seed, batch_vars, web_logs_locals, result, prev_result,
                   runs, io_vars, use_case, load_index, load_batch, insert_request,
                   sent, answers, res, load_result, lookup>>

SampleInit ==
    /\ config \in LoadConfigs
    /\ config.num_of_users = 1 /\ config.time_end.secs = 0 /\ config.seed[0] = 0
    /\ stored_seed = 0
    /\ pc = "sample"
    /\ users_batch = NoBatch
    /\ pages_batch = NoBatch
    /\ devices_batch = NoBatch
    /\ web_logs_batch = NoBatch
    /\ requests_batch = NoBatch
    /\ responses_batch = NoBatch
    /\ error_logs_batch = NoBatch
    /\ num_of_logs = 0
    /\ web_logs_locals = NoLocals
    /\ result = NoResult
    /\ prev_result = NoResult
    /\ runs = 0
    /\ files = [t \in {table_names[i] : i \in 1..Len(table_names)} |-> NoFile]
    /\ write_index = 0
    /\ write_result = NoResult
    /\ read_results = <<>>
    /\ use_case = "Log"
    /\ load_index = 0
    /\ load_batch = NoBatch
    /\ insert_request = NoRequest
    /\ sent = <<>>
    /\ answers = <<>>
    /\ res = <<>>
    /\ load_result = NoResult
    /\ lookup = NoLookup
    /\ sample \in {[point |-> x, index |-> -1, code |-> ""] : x \in SamplePoints}

SampleNext == Sample

SampleSpec == SampleInit /\ [][SampleNext]_vars

(***************************************************************************)
(* The batches generate returned, and the configuration's times.           *)
(***************************************************************************)
Generated == result.kind = "Ok"
Users == result.value[1]
Pages == result.value[2]
Devices == result.value[3]
WebLogs == result.value[4]
Requests == result.value[5]
Responses == result.value[6]
ErrorLogs == result.value[7]

StartMicros == config.time_start.secs * MicrosPerSecond
EndMicros == config.time_end.secs * MicrosPerSecond
Window == EndMicros - StartMicros

Ceil(a, b) == -((-a) \div b)
Abs(a) == IF a < 0 THEN -a ELSE a
Range(seq) == {seq[i] : i \in 1..Len(seq)}

\* The error_logs rows that carry the log_id of web_logs row k (from 1)
ErrorRowsOf(k) ==
    {e \in 1..NumRows(ErrorLogs) : Column(ErrorLogs, 1)[e] = Column(WebLogs, 0)[k]}

C3_ReferentialValidity ==
    (Generated /\ config.num_of_users >= 1 /\ config.num_of_pages >= 1) =>
        /\ Range(Column(WebLogs, 1)) \subseteq Range(Column(Users, 0))
        /\ Range(Column(WebLogs, 2)) \subseteq Range(Column(Pages, 0))
        /\ Range(Column(WebLogs, 3)) \subseteq Range(Column(Devices, 0))
        /\ Range(Column(Requests, 1)) \subseteq Range(Column(WebLogs, 0))
        /\ Range(Column(Responses, 1)) \subseteq Range(Column(WebLogs, 0))
        /\ Range(Column(ErrorLogs, 1)) \subseteq Range(Column(WebLogs, 0))

C3_Witness ==
    /\ Generated
    /\ config.num_of_users = 2
    /\ config.num_of_pages = 2
    /\ NumRows(WebLogs) >= 3
    /\ ErrorRowsOf(NumRows(WebLogs)) # {}
    /\ Range(Column(WebLogs, 1)) = {0, 1}

(***************************************************************************)
(* C4: after generate, devices has as many rows as users, which is         *)
(* num_users, and pages has num_pages rows.                                *)
(***************************************************************************)
C4_EntityRowCounts ==
    Generated =>
        /\ NumRows(Devices) = NumRows(Users)
        /\ NumRows(Users) = config.num_of_users
        /\ NumRows(Pages) = config.num_of_pages

C4_Witness ==
    /\ Generated
    /\ config.num_of_users = 2
    /\ config.num_of_pages = 1
    /\ NumRows(Devices) = 2
    /\ NumRows(WebLogs) >= 1

(***************************************************************************)
(* C5: after generate, requests and responses each have as many rows as    *)
(* web_logs.                                                               *)
(***************************************************************************)
C5_OneRequestAndResponsePerLog ==
    Generated =>
        /\ NumRows(Requests) = NumRows(Responses)
        /\ NumRows(Responses) = NumRows(WebLogs)

C5_Witness ==
    /\ Generated
    /\ NumRows(WebLogs) = 3
    /\ NumRows(Requests) = 3

(***************************************************************************)
(* C6: whatever the random draws, each web_logs row has 0 or 1 to 3        *)
(* error_logs rows, so error_logs has between 0 and 3 times as many rows   *)
(* as web_logs.                                                            *)
(***************************************************************************)
C6_AtMostThreeErrorsPerLog ==
    Generated =>
        /\ \A k \in 1..NumRows(WebLogs) : Cardinality(ErrorRowsOf(k)) \in 0..MaxErrors
        /\ \A e \in 1..NumRows(ErrorLogs) : \E k \in 1..NumRows(WebLogs) : e \in ErrorRowsOf(k)
        /\ 0 <= NumRows(ErrorLogs)
        /\ NumRows(ErrorLogs) <= 3 * NumRows(WebLogs)

C6_Witness ==
    /\ Generated
    /\ \E k \in 1..NumRows(WebLogs) : Cardinality(ErrorRowsOf(k)) = 3
    /\ \E k \in 1..NumRows(WebLogs) : Cardinality(ErrorRowsOf(k)) = 0

C8_ErrorTimestampAfterLog ==
    Generated =>
        \A k \in 1..NumRows(WebLogs) : \A e \in ErrorRowsOf(k) :
            LET base == Column(WebLogs, 6)[k]
                t == Column(ErrorLogs, 4)[e]
            IN  base <= t /\ t < base + ErrorLogJitter

C8_Witness ==
    /\ Generated
    /\ \E k \in 1..NumRows(WebLogs) : \E e \in ErrorRowsOf(k) :
           Column(ErrorLogs, 4)[e] = Column(WebLogs, 6)[k] + ErrorLogJitter - 1
    /\ NumRows(ErrorLogs) >= 2

(***************************************************************************)
(* C9: determinism.  A second call of generate on the same configuration   *)
(* and seed returns the same seven batches as the first, cell for cell.    *)
(***************************************************************************)
C9_Deterministic ==
    (prev_result.kind = "Ok" /\ result.kind # "None") =>
        /\ result.kind = "Ok"
        /\ Len(result.value) = Len(table_names)
        /\ \A t \in 1..Len(table_names) : result.value[t] = prev_result.value[t]

C9_Witness ==
    /\ prev_result.kind = "Ok"
    /\ Generated
    /\ NumRows(WebLogs) >= 3
    /\ NumRows(ErrorLogs) >= 1
    /\ Cardinality(Range(Column(Users, 1))) = 2
    /\ Cardinality(Range(Column(WebLogs, 4))) >= 2

(***************************************************************************)
(* C10: round trip.  Reading the file write produced for a table gives a   *)
(* batch with the row count, the column count and the cells of the batch   *)
(* written, for each of the seven tables.                                  *)
(***************************************************************************)
C10_RoundTrip ==
    \A t \in 1..Len(read_results) :
        /\ read_results[t].kind = "Ok"
        /\ NumRows(read_results[t].value) = NumRows(result.value[t])
        /\ Len(read_results[t].value.columns) = Len(result.value[t].columns)
        /\ read_results[t].value.columns = result.value[t].columns

(***************************************************************************)
(* The load as its caller sees it.                                         *)
(***************************************************************************)
Loaded == pc = "loaded"

\* The tables whose pass of the loader's loop was entered: those finished
\* and the one whose failure ended the load.
TablesAttempted == load_index + (IF load_result.kind = "Ok" THEN 0 ELSE 1)

(***************************************************************************)
(* C11 as stated: a failure of the read, the conversion or the insert of   *)
(* one table does not stop the load; when the load has returned, the       *)
(* loader has gone through every table of table_names.                     *)
(***************************************************************************)
C11_LoadGoesThroughEveryTable ==
    Loaded => TablesAttempted = Len(table_names)

HasUnsupportedColumn(batch) ==
    \E c \in 1..Len(batch.schema) : batch.schema[c].data_type \notin SupportedTypes

(***************************************************************************)
(* C12 as stated: converting a batch with a column that is not a string,   *)
(* a 32-bit integer or a microsecond timestamp without time zone returns   *)
(* the error UnsupportedColumnType to the caller: the load returns with    *)
(* that error, neither aborted nor with rows for the database.             *)
(***************************************************************************)
C12_UnsupportedColumnIsAnError ==
    [][(pc = "load_convert" /\ use_case = "Log" /\ HasUnsupportedColumn(load_batch))
          => (pc' = "loaded" /\ load_result' = Err("UnsupportedColumnType"))]_vars

\* The wire type that carries a column of a supported type
WireTypeOf(data_type) ==
    CASE data_type = Utf8 -> "StringValue"
      [] data_type = Int32 -> "I32Value"
      [] data_type = TimestampMicros -> "TimestampMicrosecondValue"

(***************************************************************************)
(* C13: the request converted from a batch holds one insert with the table *)
(* name and the wire schema the loader passed, and as many wire rows as    *)
(* the batch has rows, in row order; every wire row has one value per      *)
(* batch column, in column order, and value (r, c) carries cell (r, c) of  *)
(* the batch in the wire type of the column's type.                        *)
(***************************************************************************)
C13_ConverterPreservesCells ==
    pc = "load_insert" =>
        LET name == table_names[load_index + 1]
            insert == insert_request.inserts[1]
            rows == insert.rows.rows
        IN  /\ Len(insert_request.inserts) = 1
            /\ insert.table_name = name
            /\ insert.rows.schema = Schema(name)
            /\ Len(rows) = NumRows(load_batch)
            /\ \A r \in 1..Len(rows) :
                   /\ Len(rows[r].values) = Len(load_batch.columns)
                   /\ \A c \in 1..Len(load_batch.columns) :
                          /\ rows[r].values[c].v = load_batch.columns[c][r]
                          /\ rows[r].values[c].value_data =
                                 WireTypeOf(load_batch.schema[c].data_type)

\* The web_logs batch of two rows, whose columns have all three types and
\* whose rows differ, was converted.
C13_Witness ==
    /\ pc = "load_insert"
    /\ table_names[load_index + 1] = "web_logs"
    /\ NumRows(load_batch) = 2
    /\ load_batch.columns[1] = <<0, 1>>
    /\ Len(insert_request.inserts[1].rows.rows) = 2
    /\ {load_batch.schema[c].data_type : c \in 1..Len(load_batch.schema)} = SupportedTypes

\* The schemas of the seven tables in the order of generate's vec![..]
GeneratedSchemas ==
    <<users_schema, pages_schema, devices_schema, web_logs_schema, requests_schema,
      responses_schema, error_logs_schema>>

(***************************************************************************)
(* C14 as stated: generate is all-or-nothing.  Every call that has ended   *)
(* either returned exactly seven batches, in the order users, pages,       *)
(* devices, web_logs, requests, responses, error_logs, or returned an      *)
(* error and no batch at all.                                              *)
(***************************************************************************)
C14_AllOrNothing ==
    result # NoResult =>
        \/ /\ result.kind = "Ok"
           /\ Len(result.value) = Len(GeneratedSchemas)
           /\ \A i \in 1..Len(GeneratedSchemas) : result.value[i].schema = GeneratedSchemas[i]
        \/ /\ result.kind = "Err"
           /\ result.value = <<>>

\* The number of columns of each of the seven tables
ColumnCounts == <<4, 4, 2, 7, 5, 5, 5>>

(***************************************************************************)
(* C15: every batch generate returns has as many columns as its table's    *)
(* schema has fields (users 4, pages 4, devices 2, web_logs 7, requests 5, *)
(* responses 5, error_logs 5), and every column is as long as the batch    *)
(* has rows.                                                               *)
(***************************************************************************)
C15_BatchShape ==
    Generated =>
        \A i \in 1..Len(result.value) :
            LET batch == result.value[i]
            IN  /\ batch.schema = GeneratedSchemas[i]
                /\ Len(batch.columns) = Len(batch.schema)
                /\ Len(batch.columns) = ColumnCounts[i]
                /\ \A c \in 1..Len(batch.columns) : Len(batch.columns[c]) = NumRows(batch)

\* Seven batches of different row counts, none of them empty
C15_Witness ==
    /\ Generated
    /\ Len(result.value) = 7
    /\ NumRows(Users) = 2
    /\ NumRows(Pages) = 1
    /\ NumRows(WebLogs) = 3
    /\ NumRows(ErrorLogs) >= 1
    /\ \A c \in 1..7 : Len(WebLogs.columns[c]) = 3

(***************************************************************************)
(* C16: table_names fixes the order of the tables for write and for the    *)
(* load.  Batch i of write's argument is stored in the file of table i of  *)
(* table_names.  The loader reads and converts the file of table           *)
(* load_index + 1, its k-th insert is the one insert of table k, and an    *)
(* insert leaves for the database only when every earlier one has been     *)
(* answered.                                                               *)
(***************************************************************************)
C16_TableOrder ==
    /\ result.kind = "Ok" =>
           \A i \in 1..write_index :
               files[table_names[i]] = WriteBatch(result.value[i])
    /\ pc \in {"load_convert", "load_insert"} =>
           Ok(load_batch) = ReadParquetFile(files[table_names[load_index + 1]])
    /\ Len(sent) <= Len(table_names)
    /\ \A k \in 1..Len(sent) :
           /\ Len(sent[k].inserts) = 1
           /\ sent[k].inserts[1].table_name = table_names[k]
           /\ sent[k].inserts[1].rows.schema = Schema(table_names[k])
    /\ Len(sent) - Len(answers) \in {0, 1}
    /\ pc = "load_insert" => (Len(answers) = Len(sent) /\ Len(sent) = load_index)
    /\ pc = "load_await" => Len(sent) = load_index + 1
    /\ Len(res) = load_index

\* All seven tables written, loaded and answered, the inserts carrying the
\* rows of the seven files.
C16_Witness ==
    /\ pc = "loaded"
    /\ write_index = Len(table_names)
    /\ load_result = Ok(res)
    /\ Len(sent) = Len(table_names)
    /\ Len(answers) = Len(table_names)
    /\ \A k \in 1..Len(table_names) :
           /\ res[k] = NumRows(result.value[k])
           /\ res[k] >= 1
    /\ res[1] = 2

(***************************************************************************)
(* C17: schema and table_name match the name exactly.  For each of the     *)
(* seven names of table_names, schema gives a column list that is not      *)
(* empty and table_name gives the name itself; for every other name,       *)
(* schema gives the empty list and table_name gives "unknown".             *)
(***************************************************************************)
C17_LookupByExactName ==
    lookup # NoLookup =>
        IF lookup.name \in Range(table_names)
        THEN /\ Len(lookup.schema) >= 1
             /\ lookup.table_name = lookup.name
        ELSE /\ lookup.schema = <<>>
             /\ lookup.table_name = "unknown"

\* A name that differs from a table's name only in its first letter's case
C17_Witness ==
    /\ lookup.name = "Users"
    /\ lookup.schema = <<>>
    /\ lookup.table_name = "unknown"

(***************************************************************************)
(* C18 as stated: the web_logs row with log_id = k references the user,    *)
(* the page and the device at position k mod num_users, k mod num_pages    *)
(* and k mod num_users of their tables; the row with log_id 0 references   *)
(* user 0, page 0 and device 0.                                            *)
(***************************************************************************)
C18_CyclicReferences ==
    Generated =>
        \A row \in 1..NumRows(WebLogs) :
            LET k == Column(WebLogs, 0)[row]
            IN  /\ Column(WebLogs, 1)[row] = Value(Column(Users, 0), k % NumRows(Users))
                /\ Column(WebLogs, 2)[row] = Value(Column(Pages, 0), k % NumRows(Pages))
                /\ Column(WebLogs, 3)[row] = Value(Column(Devices, 0), k % NumRows(Users))
                /\ k = 0 => /\ Column(WebLogs, 1)[row] = 0
                            /\ Column(WebLogs, 2)[row] = 0
                            /\ Column(WebLogs, 3)[row] = 0

\* The jitter of web_logs row k (from 1): its timestamp less its nominal time
JitterOf(k) == Column(WebLogs, 6)[k] - (StartMicros + (k - 1) * config.interval)

(***************************************************************************)
(* C19 as stated: the jitter added to each web_logs nominal time lies in   *)
(* the open interval (-500_000, 500_000); -500_000 and 500_000 are never   *)
(* produced.                                                               *)
(***************************************************************************)
C19_JitterInOpenInterval ==
    Generated =>
        \A k \in 1..NumRows(WebLogs) :
            JitterOf(k) \in (1 - WebLogJitter)..(WebLogJitter - 1)

(***************************************************************************)
(* C19, amended: the jitter added to each web_logs nominal time lies in    *)
(* the half-open interval [-500_000, 500_000): 500_000 is never produced,  *)
(* -500_000 can be.                                                        *)
(***************************************************************************)
C19_JitterInHalfOpenInterval ==
    Generated =>
        \A k \in 1..NumRows(WebLogs) :
            JitterOf(k) \in (-WebLogJitter)..(WebLogJitter - 1)

\* Two rows, one with the least and one with the greatest jitter
C19_Witness ==
    /\ Generated
    /\ NumRows(WebLogs) >= 2
    /\ \E k \in 1..NumRows(WebLogs) : JitterOf(k) = -WebLogJitter
    /\ \E k \in 1..NumRows(WebLogs) : JitterOf(k) = WebLogJitter - 1

(***************************************************************************)
(* C20 as stated: the loop of generate_web_logs_data ends only by          *)
(* current_time exceeding time_end, at the first iteration where it does,  *)
(* and generate goes on to return: whenever the loop is left, current_time *)
(* is greater than end_time and the requests are generated next.           *)
(***************************************************************************)
C20_LoopExitsPastEndTime ==
    [][(pc = "web_logs_loop" /\ pc' # "web_logs_loop")
          => /\ web_logs_locals.current_time > web_logs_locals.end_time
             /\ pc' = "requests"]_vars

(***************************************************************************)
(* C21 as stated: every fallible step of write gives the caller a typed    *)
(* result.  Whatever happens to the file of a table, write returns Ok or   *)
(* an error value and the process goes on; it is never aborted.            *)
(***************************************************************************)
C21_WriteReturnsTypedErrors ==
    [][pc = "write"
          => /\ pc' \in {"write", "written"}
             /\ write_result'.kind \in {"None", "Ok", "Err"}]_vars

\* The column of row indices 0, 1, .. of a batch
RowIndices(batch) == [i \in 1..NumRows(batch) |-> i - 1]

(***************************************************************************)
(* C22: identifier columns are dense row indices.  In each of the seven    *)
(* tables the first column (user_id, page_id, device_id, log_id,           *)
(* request_id, response_id, error_log_id) holds i in row i, counted from   *)
(* 0, so it is strictly increasing.                                        *)
(***************************************************************************)
C22_IdsAreRowIndices ==
    Generated =>
        \A t \in 1..Len(result.value) :
            /\ Column(result.value[t], 0) = RowIndices(result.value[t])
            /\ \A i, j \in 1..NumRows(result.value[t]) :
                   i < j => Column(result.value[t], 0)[i] < Column(result.value[t], 0)[j]

\* Tables of two and three rows, and error_logs with more rows than web_logs
C22_Witness ==
    /\ Generated
    /\ Column(Users, 0) = <<0, 1>>
    /\ Column(Devices, 0) = <<0, 1>>
    /\ Column(Pages, 0) = <<0, 1>>
    /\ Column(WebLogs, 0) = <<0, 1, 2>>
    /\ Column(Requests, 0) = <<0, 1, 2>>
    /\ Column(Responses, 0) = <<0, 1, 2>>
    /\ NumRows(ErrorLogs) > 3
    /\ Column(ErrorLogs, 0) = RowIndices(ErrorLogs)

(***************************************************************************)
(* C23: for every row index i below the number of web_logs rows, the       *)
(* log_id of requests row i and of responses row i is the log_id of        *)
(* web_logs row i, and the url of requests row i is the page_url of the    *)
(* pages row i mod num_pages.                                              *)
(***************************************************************************)
C23_PositionalCopies ==
    Generated =>
        \A i \in 0..(NumRows(WebLogs) - 1) :
            /\ Value(Column(Requests, 1), i) = Value(Column(WebLogs, 0), i)
            /\ Value(Column(Responses, 1), i) = Value(Column(WebLogs, 0), i)
            /\ Value(Column(Requests, 3), i) = Value(Column(Pages, 1), i % NumRows(Pages))

\* Three rows over two pages of different urls: the third request reuses
\* the url of the first page.
C23_Witness ==
    /\ Generated
    /\ NumRows(WebLogs) = 3
    /\ NumRows(Pages) = 2
    /\ Column(Pages, 1)[1] # Column(Pages, 1)[2]
    /\ Column(Requests, 3) = <<Column(Pages, 1)[1], Column(Pages, 1)[2], Column(Pages, 1)[1]>>
    /\ Column(Requests, 1) = <<0, 1, 2>>
    /\ Column(Responses, 1) = <<0, 1, 2>>

\* The codes and weights the claim lists, by position
ClaimedCodes ==
    <<"200", "201", "202", "204", "400", "401", "403", "404", "500", "502", "503">>
ClaimedWeights == <<40, 20, 10, 10, 5, 2, 2, 5, 3, 2, 1>>

\* The points of 0..total-1 that fall to index k (from 0)
PointsOf(k, total) == {x \in 0..(total - 1) : WeightedIndexAt(x, weights) = k}

\* Every status code is one of the eleven codes, chosen by an index drawn
\* with the position-matched weights, which sum to total; each code can
\* occur and no other value can.
StatusCodesByWeights(total) ==
    pc = "sampled" =>
        /\ SumTo(weights, Len(weights)) = total
        /\ http_status_codes = ClaimedCodes
        /\ weights = ClaimedWeights
        /\ sample.index \in 0..(Len(ClaimedCodes) - 1)
        /\ sample.code = ClaimedCodes[sample.index + 1]
        /\ SumTo(ClaimedWeights, sample.index) <= sample.point
        /\ sample.point < SumTo(ClaimedWeights, sample.index + 1)
        /\ \A k \in 1..Len(ClaimedCodes) :
               /\ ClaimedWeights[k] > 0
               /\ Cardinality(PointsOf(k - 1, total)) = ClaimedWeights[k]

(***************************************************************************)
(* C24 as stated: every responses.status_code is one of the eleven codes   *)
(* 200 .. 503, chosen by an index drawn with the weights 40, 20, 10, 10,   *)
(* 5, 2, 2, 5, 3, 2, 1, whose total is 102; every code can occur and no    *)
(* other value can.                                                        *)
(***************************************************************************)
C24_StatusCodesByWeightsOf102 == StatusCodesByWeights(102)

(***************************************************************************)
(* C24, amended: the same with the total of the weights being 100, so that *)
(* the weight of a code is its probability in percent.                     *)
(***************************************************************************)
C24_StatusCodesByWeightsOf100 == StatusCodesByWeights(100)

\* The last point falls to the last code, the one of weight 1
C24_Witness ==
    /\ pc = "sampled"
    /\ sample.point = 99
    /\ sample.index = 10
    /\ sample.code = "503"

\* The wire type of a column type, and the wire value of a wire type
WireDataTypeOf(data_type) ==
    CASE data_type = Int32 -> "Int32"
      [] data_type = Utf8 -> "String"
      [] data_type = TimestampMicros -> "TimestampMicrosecond"
      [] OTHER -> "none"

WireValueOf(datatype) ==
    CASE datatype = "Int32" -> "I32Value"
      [] datatype = "String" -> "StringValue"
      [] datatype = "TimestampMicrosecond" -> "TimestampMicrosecondValue"
      [] OTHER -> "none"

\* A wire schema that fits an arrow schema: as many columns, the same names
\* in the same order, the wire type of each column's type
Consistent(wire_schema, arrow_schema) ==
    /\ Len(wire_schema) = Len(arrow_schema)
    /\ \A c \in 1..Len(arrow_schema) :
           /\ wire_schema[c].column_name = arrow_schema[c].name
           /\ wire_schema[c].datatype = WireDataTypeOf(arrow_schema[c].data_type)

(***************************************************************************)
(* C25: for each of the seven tables, schema(table) fits the schema of the *)
(* batch generate returns for it: as many columns, the same column names   *)
(* in the same order, Int32 with Int32, String with Utf8 and               *)
(* TimestampMicrosecond with the microsecond timestamp; every value the    *)
(* converter puts in a request has the wire type its column declares.      *)
(***************************************************************************)
C25_WireSchemaFitsBatchSchema ==
    /\ Generated =>
           \A t \in 1..Len(result.value) :
               Consistent(Schema(table_names[t]), result.value[t].schema)
    /\ pc = "load_insert" =>
           LET rows == insert_request.inserts[1].rows
           IN  /\ Consistent(rows.schema, load_batch.schema)
               /\ \A r \in 1..Len(rows.rows) : \A c \in 1..Len(rows.schema) :
                      rows.rows[r].values[c].value_data = WireValueOf(rows.schema[c].datatype)

\* The request of the responses table, whose status_code is a string
C25_Witness ==
    /\ Generated
    /\ pc = "load_insert"
    /\ table_names[load_index + 1] = "responses"
    /\ insert_request.inserts[1].rows.schema[3] = field("status_code", "String")
    /\ Len(insert_request.inserts[1].rows.rows) = 2
    /\ insert_request.inserts[1].rows.rows[1].values[3] = string_value("200")

\* The timestamp of web_logs row k + 1 less that of row k (rows from 1)
TimestampStep(k) == Column(WebLogs, 6)[k + 1] - Column(WebLogs, 6)[k]

(***************************************************************************)
(* C26: when the interval is at least 1_000_000 microseconds, the          *)
(* timestamps of web_logs are strictly increasing in the order of log_id,  *)
(* whatever the jitter.                                                    *)
(***************************************************************************)
C26_TimestampsIncrease ==
    (Generated /\ config.interval >= MicrosPerSecond) =>
        \A k \in 1..(NumRows(WebLogs) - 1) :
            /\ Column(WebLogs, 0)[k] < Column(WebLogs, 0)[k + 1]
            /\ TimestampStep(k) >= 1

\* Interval 1_000_000, the greatest jitter followed by the least: the
\* timestamps of the two rows differ by 1.
C26_Witness ==
    /\ Generated
    /\ config.interval = MicrosPerSecond
    /\ NumRows(WebLogs) >= 2
    /\ JitterOf(1) = WebLogJitter - 1
    /\ JitterOf(2) = -WebLogJitter
    /\ TimestampStep(1) = 1

\* C26, the smaller intervals: with an interval of 500_000 two consecutive
\* rows with equal timestamps, and two with decreasing timestamps.
C26_EqualAtSmallInterval ==
    /\ Generated
    /\ config.interval < MicrosPerSecond
    /\ \E k \in 1..(NumRows(WebLogs) - 1) : TimestampStep(k) = 0

C26_DecreasingAtSmallInterval ==
    /\ Generated
    /\ config.interval < MicrosPerSecond
    /\ \E k \in 1..(NumRows(WebLogs) - 1) : TimestampStep(k) < 0

\* Both times of the configuration parse and time_end is before time_start.
EndsBeforeStart ==
    /\ config.time_start.valid
    /\ config.time_end.valid
    /\ config.time_end.secs < config.time_start.secs

C28_GenerateAlwaysReturns ==
    result.kind \in {"None", "Ok", "Err"}

====
